---- MODULE Spec2Model ----
(***************************************************************************)
(* Request handling of the MUN platform backend: the /auth routes (signup, *)
(* token login) and the /documents routes (create, list, get, update,      *)
(* delete, format-check) over the two remote tables "users" and            *)
(* "documents".  Every remote table call is one atomic step; a handler     *)
(* that makes two calls is two steps, and other requests may run between   *)
(* them.                                                                   *)
(***************************************************************************)
EXTENDS Integers, FiniteSets, Sequences, TLC

VARIABLES users, documents, nextDocId, now, issued, req, resp

vars == <<users, documents, nextDocId, now, issued, req, resp>>

\* ------------------------------------------------------------------ bounds
MaxUsers == 2
MaxDocs == 1
MaxTime == 2
MaxTokens == 3

\* Handler slots: requests being served concurrently.
Procs == {"r1", "r2"}

None == "None"

\* ------------------------------------------------------ Credential Manager
Passwords == {"pw1", "pw2"}
Salts == {"s1"}

\* get_password_hash: a digest that embeds the salt and differs from every
\* plaintext.
HashTable ==
    [x \in Passwords \X Salts |->
        IF x[1] = "pw1" THEN "$2b$s1$h(pw1)" ELSE "$2b$s1$h(pw2)"]

get_password_hash(plain, salt) == HashTable[<<plain, salt>>]

\* verify_password: recompute with the salt embedded in the digest; false on
\* a malformed digest.
verify_password(plain, hashed) ==
    \E s \in Salts : HashTable[<<plain, s>>] = hashed

\* --------------------------------------------------------- Token Authority
TokenLifetime == 2

SECRET_KEY == "secret"

NoToken == [sub |-> 0, iat |-> 0, exp |-> 0, sig |-> "none"]

\* create_access_token(data={"sub": id}, expires_delta)
create_access_token(sub, expires_delta) ==
    [sub |-> sub, iat |-> now, exp |-> now + expires_delta, sig |-> SECRET_KEY]

\* A token signed with another secret, never expiring within the model.
ForgedTokens ==
    {[sub |-> 1, iat |-> 0, exp |-> MaxTime + TokenLifetime + 1, sig |-> "other"]}

\* get_current_user: the subject id, or 0 for Unauthenticated.
verify_token(token, time) ==
    IF token.sig = SECRET_KEY /\ time < token.exp THEN token.sub ELSE 0

\* Tokens a client may present: one it was issued, none, or a forged one.
PresentedTokens == issued \cup {NoToken} \cup ForgedTokens

\* ---------------------------------------------------------------- requests
EmptyBody == [f \in {} |-> None]

\* A handler slot between two remote calls (pc names the call it makes next),
\* and the shape of the last response sent.
Idle ==
    [kind |-> "idle", pc |-> "idle", token |-> NoToken, user |-> 0,
     doc_id |-> 0, body |-> EmptyBody, owner |-> 0,
     status |-> 0, detail |-> "", data |-> None, trace |-> <<>>]

\* resp holds a response only for the step in which it is sent: no handler
\* reads it, so every other step is taken with none in transit.
Quiet == resp = Idle

Free(p) == Quiet /\ req[p].pc = "idle"

Respond(r, st, detail, data, steps) ==
    [r EXCEPT !.pc = "done", !.status = st, !.detail = detail,
              !.data = data, !.trace = r.trace \o steps]

\* The handler in slot p returns (or raises) r; the slot is free again.
Finish(p, r) ==
    /\ resp' = r
    /\ req' = [req EXCEPT ![p] = Idle]

\* The handler in slot p goes on to its next remote call.
Continue(p, r) ==
    /\ req' = [req EXCEPT ![p] = r]
    /\ UNCHANGED resp

Init ==
    /\ users = {}
    /\ documents = {}
    /\ nextDocId = 1
    /\ now = 0
    /\ issued = {}
    /\ req = [p \in Procs |-> Idle]
    /\ resp = Idle

\* ------------------------------------------------------------ /auth/signup
SignupInputs ==
    { [email |-> "a@x.com", username |-> "alice", password |-> "pw1"],
      [email |-> "a@x.com", username |-> "amy", password |-> "pw2"],
      [email |-> "b@x.com", username |-> "bob", password |-> "pw2"] }

\* Signups that passed the lookup and have not inserted yet.
PendingSignups == {q \in Procs : req[q].kind = "signup"}

\* if existing_user.data: the lookup found a row.
EmailTakenNever(existing_user) == FALSE

EmailTaken(existing_user) == existing_user # {}

\* create_user up to the insert: the lookup by email and the conflict check.
SignupLookup(p, user) ==
    /\ Free(p)
    /\ Cardinality(users) + Cardinality(PendingSignups) < MaxUsers
    /\ LET r == [Idle EXCEPT !.kind = "signup", !.body = user,
                             !.trace = <<"select_users">>]
           existing_user == {u \in users : u.email = user.email}
       IN IF EmailTaken(existing_user)
          THEN Finish(p, Respond(r, 400, "Email already registered", None, <<>>))
          ELSE Continue(p, [r EXCEPT !.pc = "insert"])
    /\ UNCHANGED <<users, documents, nextDocId, now, issued>>

NewUserPlain(user, salt) ==
    [email |-> user.email, username |-> user.username,
     password |-> user.password]

\* The record create_user inserts.
NewUser(user, salt) ==
    [email |-> user.email, username |-> user.username,
     password |-> get_password_hash(user.password, salt)]

\* create_user from the insert on: hash, insert, response.
SignupInsert(p) ==
    /\ Quiet
    /\ req[p].kind = "signup" /\ req[p].pc = "insert"
    /\ \E salt \in Salts :
         LET new_user == NewUser(req[p].body, salt)
             created_user ==
                 [id |-> Cardinality(users) + 1, email |-> new_user.email,
                  username |-> new_user.username,
                  password |-> new_user.password]
         IN /\ users' = users \cup {created_user}
            /\ Finish(p, Respond(req[p], 201, "",
                                 [id |-> created_user.id,
                                  email |-> created_user.email,
                                  username |-> created_user.username],
                                 <<"insert_users">>))
    /\ UNCHANGED <<documents, nextDocId, now, issued>>

\* ------------------------------------------------- /auth/token, /auth/login
LoginInputs ==
    { [username |-> "a@x.com", password |-> "pw1"],
      [username |-> "a@x.com", password |-> "pw2"],
      [username |-> "b@x.com", password |-> "pw2"],
      [username |-> "c@x.com", password |-> "pw1"] }

access_token_expires_long == TokenLifetime + 1

\* The lifetime login_for_access_token passes to create_access_token.
access_token_expires == TokenLifetime

PasswordVerifiedAlways(form_data, user) == TRUE

\* verify_password(form_data.password, user["password"])
PasswordVerified(form_data, user) ==
    verify_password(form_data.password, user.password)

Unauthorized(r) ==
    Respond(r, 401, "Incorrect email or password", None, <<>>)

\* login_for_access_token; login builds the same form and delegates to it.
Login(p, form_data) ==
    /\ Free(p)
    /\ LET r == [Idle EXCEPT !.kind = "login", !.body = form_data,
                             !.trace = <<"select_users">>]
           user_result == {u \in users : u.email = form_data.username}
       IN \/ /\ user_result = {}
             /\ Finish(p, Unauthorized(r))
             /\ UNCHANGED issued
          \/ \E user \in user_result :
               IF ~PasswordVerified(form_data, user)
               THEN /\ Finish(p, Unauthorized(r))
                    /\ UNCHANGED issued
               ELSE LET access_token ==
                            create_access_token(user.id, access_token_expires)
                    IN /\ Cardinality(issued \cup {access_token}) <= MaxTokens
                       /\ issued' = issued \cup {access_token}
                       /\ Finish(p, Respond(r, 200, "",
                                            [access_token |-> access_token,
                                             token_type |-> "bearer"], <<>>))
    /\ UNCHANGED <<users, documents, nextDocId, now>>

\* -------------------------------------------------------------- /documents
DocumentBaseFields ==
    {"title", "type", "committee", "country", "topic", "content"}

DocumentUpdateFields == DocumentBaseFields \cup {"format_status"}

\* DocumentCreate(**body).dict(): the declared fields, content defaulting to
\* None; keys the schema does not declare are dropped.
DocumentCreate(body) ==
    [f \in DocumentBaseFields |-> IF f \in DOMAIN body THEN body[f] ELSE None]

\* DocumentUpdate(**body).dict(): every declared field, None when absent.
DocumentUpdate(body) ==
    [f \in DocumentUpdateFields |-> IF f \in DOMAIN body THEN body[f] ELSE None]

UpdateDataAll(body) == DocumentUpdate(body)

\* update_data: the fields of the parsed update that are not None.
UpdateData(body) ==
    LET d == DocumentUpdate(body)
    IN [f \in {g \in DOMAIN d : d[g] # None} |-> d[f]]

\* table.update(data).eq("id", ...) applied to one row.
ApplyUpdate(row, data) ==
    [f \in DOMAIN row |-> IF f \in DOMAIN data THEN data[f] ELSE row[f]]

\* table("documents").select("*").eq("id", document_id)
SelectById(document_id) == {d \in documents : d.id = document_id}

current_user_unverified(token) == token.sub

\* current_user: TokenData = Depends(get_current_user); 0 when the
\* dependency raises 401.
current_user(token) == verify_token(token, now)

\* A /documents request as its handler is entered.
Arrive(kind, token, document_id, body) ==
    [Idle EXCEPT !.kind = kind, !.token = token, !.doc_id = document_id,
                 !.body = body, !.user = current_user(token),
                 !.trace = <<"verify_token">>]

Unauthenticated(r) ==
    Respond(r, 401, "Could not validate credentials", None, <<>>)

OwnerGateNoOwnerCheck(rows, user_id) == IF rows = {} THEN 404 ELSE 0

OwnerGateConflated(rows, user_id) ==
    IF rows = {} \/ \E d \in rows : d.user_id # user_id THEN 403 ELSE 0

\* The 404 / 403 checks update_document and delete_document make on the
\* fetched rows: the status raised, or 0 to go on.
OwnerGate(rows, user_id) ==
    IF rows = {} THEN 404
    ELSE IF \E d \in rows : d.user_id # user_id THEN 403
    ELSE 0

\* The 404 check of get_document and check_document_format.
ExistsGate(rows) == IF rows = {} THEN 404 ELSE 0

OwnerOf(rows) == IF rows = {} THEN 0 ELSE (CHOOSE d \in rows : TRUE).user_id

CreateBodies ==
    { [title |-> "Paper", type |-> "position_paper", committee |-> "UNSC",
       country |-> "France", topic |-> "Cyber"],
      [title |-> "Paper", type |-> "position_paper", committee |-> "UNSC",
       country |-> "France", topic |-> "Cyber",
       user_id |-> 1, format_status |-> "valid"] }

UpdateBodies ==
    { [title |-> "Revised", topic |-> None],
      [format_status |-> "valid", user_id |-> 1, id |-> 9],
      EmptyBody }

NoFilter == [type |-> None, committee |-> None, country |-> None]

ListFilters ==
    { NoFilter,
      [type |-> "position_paper", committee |-> None, country |-> "Chile"] }

\* Ids a client may ask for: every id ever assigned, and one never assigned.
DocIds == 1..(MaxDocs + 1)

\* create_document
CreateDocument(p, token, body) ==
    /\ Free(p)
    /\ LET r == Arrive("create", token, 0, body)
       IN IF r.user = 0
          THEN /\ Finish(p, Unauthenticated(r))
               /\ UNCHANGED <<documents, nextDocId>>
          ELSE /\ nextDocId <= MaxDocs
               /\ LET new_document ==
                          [user_id |-> r.user, format_status |-> "not_checked"]
                          @@ DocumentCreate(body)
                      row == [id |-> nextDocId] @@ new_document
                  IN /\ documents' = documents \cup {row}
                     /\ nextDocId' = nextDocId + 1
                     /\ Finish(p, Respond(r, 201, "", row,
                                          <<"insert_documents">>))
    /\ UNCHANGED <<users, now, issued>>

\* get_documents
GetDocuments(p, token, filter) ==
    /\ Free(p)
    /\ LET r == Arrive("list", token, 0, filter)
           Match(d) ==
               \A f \in DOMAIN filter : filter[f] \in {None, ""} \/ d[f] = filter[f]
       IN IF r.user = 0
          THEN Finish(p, Unauthenticated(r))
          ELSE Finish(p, Respond(r, 200, "", {d \in documents : Match(d)},
                                 <<"select_documents">>))
    /\ UNCHANGED <<users, documents, nextDocId, now, issued>>

\* get_document
GetDocument(p, token, document_id) ==
    /\ Free(p)
    /\ LET r == Arrive("get", token, document_id, EmptyBody)
           result == SelectById(document_id)
           found == [r EXCEPT !.owner = OwnerOf(result),
                              !.trace = @ \o <<"select_documents">>]
       IN IF r.user = 0
          THEN Finish(p, Unauthenticated(r))
          ELSE IF ExistsGate(result) = 404
          THEN Finish(p, Respond(found, 404, "Document not found", None, <<>>))
          ELSE Finish(p, Respond(found, 200, "",
                                 CHOOSE d \in result : TRUE, <<>>))
    /\ UNCHANGED <<users, documents, nextDocId, now, issued>>

\* update_document up to the update call: the fetch and the two checks.
UpdateSelect(p, token, document_id, body) ==
    /\ Free(p)
    /\ LET r == Arrive("update", token, document_id, body)
           document == SelectById(document_id)
           found == [r EXCEPT !.owner = OwnerOf(document),
                              !.trace = @ \o <<"select_documents">>]
           gate == OwnerGate(document, r.user)
       IN IF r.user = 0
          THEN Finish(p, Unauthenticated(r))
          ELSE IF gate = 404
          THEN Finish(p, Respond(found, 404, "Document not found", None, <<>>))
          ELSE IF gate = 403
          THEN Finish(p, Respond(found, 403,
                                 "Not authorized to update this document",
                                 None, <<"ownership_check">>))
          ELSE Continue(p, [found EXCEPT !.pc = "update",
                               !.trace = @ \o <<"ownership_check">>])
    /\ UNCHANGED <<users, documents, nextDocId, now, issued>>

\* update_document from the update call on.  An update with no field set
\* changes no row, and the store may return the row or nothing.
UpdateWrite(p) ==
    /\ Quiet
    /\ req[p].kind = "update" /\ req[p].pc = "update"
    /\ LET update_data == UpdateData(req[p].body)
           rows == SelectById(req[p].doc_id)
           result == {ApplyUpdate(d, update_data) : d \in rows}
           done == [req[p] EXCEPT !.trace = @ \o <<"update_documents">>]
           failed == Respond(done, 500, "Failed to update document", None, <<>>)
       IN /\ documents' = (documents \ rows) \cup result
          /\ IF result = {}
             THEN Finish(p, failed)
             ELSE \/ Finish(p, Respond(done, 200, "",
                                       CHOOSE d \in result : TRUE, <<>>))
                  \/ /\ DOMAIN update_data = {}
                     /\ Finish(p, failed)
    /\ UNCHANGED <<users, nextDocId, now, issued>>

\* delete_document up to the delete call.
DeleteSelect(p, token, document_id) ==
    /\ Free(p)
    /\ LET r == Arrive("delete", token, document_id, EmptyBody)
           document == SelectById(document_id)
           found == [r EXCEPT !.owner = OwnerOf(document),
                              !.trace = @ \o <<"select_documents">>]
           gate == OwnerGate(document, r.user)
       IN IF r.user = 0
          THEN Finish(p, Unauthenticated(r))
          ELSE IF gate = 404
          THEN Finish(p, Respond(found, 404, "Document not found", None, <<>>))
          ELSE IF gate = 403
          THEN Finish(p, Respond(found, 403,
                                 "Not authorized to delete this document",
                                 None, <<"ownership_check">>))
          ELSE Continue(p, [found EXCEPT !.pc = "delete",
                               !.trace = @ \o <<"ownership_check">>])
    /\ UNCHANGED <<users, documents, nextDocId, now, issued>>

\* delete_document from the delete call on.
DeleteWrite(p) ==
    /\ Quiet
    /\ req[p].kind = "delete" /\ req[p].pc = "delete"
    /\ documents' = documents \ SelectById(req[p].doc_id)
    /\ Finish(p, Respond(req[p], 204, "", None, <<"delete_documents">>))
    /\ UNCHANGED <<users, nextDocId, now, issued>>

\* check_document_format up to the update call: the existence check only.
FormatSelect(p, token, document_id) ==
    /\ Free(p)
    /\ LET r == Arrive("format_check", token, document_id, EmptyBody)
           document == SelectById(document_id)
           found == [r EXCEPT !.owner = OwnerOf(document),
                              !.trace = @ \o <<"select_documents">>]
       IN IF r.user = 0
          THEN Finish(p, Unauthenticated(r))
          ELSE IF ExistsGate(document) = 404
          THEN Finish(p, Respond(found, 404, "Document not found", None, <<>>))
          ELSE Continue(p, [found EXCEPT !.pc = "update"])
    /\ UNCHANGED <<users, documents, nextDocId, now, issued>>

\* check_document_format from the coin flip on.
FormatWrite(p) ==
    /\ Quiet
    /\ req[p].kind = "format_check" /\ req[p].pc = "update"
    /\ \E is_valid \in BOOLEAN :
         LET format_status == IF is_valid THEN "valid" ELSE "issues"
             issues == IF is_valid THEN None
                       ELSE <<"Incorrect heading format",
                              "Missing country flag in header",
                              "Citation style inconsistent">>
             rows == SelectById(req[p].doc_id)
         IN /\ documents' = (documents \ rows) \cup
                  {ApplyUpdate(d, [format_status |-> format_status]) : d \in rows}
            /\ Finish(p, Respond(req[p], 200, "",
                                 [document_id |-> req[p].doc_id,
                                  format_status |-> format_status,
                                  issues |-> issues],
                                 <<"update_documents">>))
    /\ UNCHANGED <<users, nextDocId, now, issued>>

\* ------------------------------------------------------------------- clock
Tick ==
    /\ Quiet
    /\ now < MaxTime
    /\ now' = now + 1
    /\ UNCHANGED <<users, documents, nextDocId, issued, req, resp>>

\* The response is on the wire; the observation is cleared.
Deliver ==
    /\ resp # Idle
    /\ resp' = Idle
    /\ UNCHANGED <<users, documents, nextDocId, now, issued, req>>

AuthActions ==
    \/ \E p \in Procs, user \in SignupInputs : SignupLookup(p, user)
    \/ \E p \in Procs : SignupInsert(p)
    \/ \E p \in Procs, form_data \in LoginInputs : Login(p, form_data)

DocumentActions ==
    \/ \E p \in Procs, t \in PresentedTokens, b \in CreateBodies :
         CreateDocument(p, t, b)
    \/ \E p \in Procs, t \in PresentedTokens, f \in ListFilters :
         GetDocuments(p, t, f)
    \/ \E p \in Procs, t \in PresentedTokens, d \in DocIds :
         GetDocument(p, t, d)
    \/ \E p \in Procs, t \in PresentedTokens, d \in DocIds, b \in UpdateBodies :
         UpdateSelect(p, t, d, b)
    \/ \E p \in Procs : UpdateWrite(p)
    \/ \E p \in Procs, t \in PresentedTokens, d \in DocIds :
         DeleteSelect(p, t, d)
    \/ \E p \in Procs : DeleteWrite(p)
    \/ \E p \in Procs, t \in PresentedTokens, d \in DocIds :
         FormatSelect(p, t, d)
    \/ \E p \in Procs : FormatWrite(p)

Next == AuthActions \/ DocumentActions \/ Tick \/ Deliver

\* The whole service from an empty store.
Spec == Init /\ [][Next]_vars

\* The /auth routes and the clock, from an empty store.
NextAuth == AuthActions \/ Tick \/ Deliver

SpecAuth == Init /\ [][NextAuth]_vars

\* A state SpecAuth reaches: alice and
\* bob have signed up; alice logged in at time 0 and that token has expired;
\* both logged in again at time TokenLifetime.
InitDocuments ==
    /\ users =
         { [id |-> 1, email |-> "a@x.com", username |-> "alice",
            password |-> get_password_hash("pw1", "s1")],
           [id |-> 2, email |-> "b@x.com", username |-> "bob",
            password |-> get_password_hash("pw2", "s1")] }
    /\ documents = {}
    /\ nextDocId = 1
    /\ now = TokenLifetime
    /\ issued =
         { [sub |-> 1, iat |-> 0, exp |-> TokenLifetime, sig |-> SECRET_KEY],
           [sub |-> 1, iat |-> TokenLifetime, exp |-> TokenLifetime + TokenLifetime,
            sig |-> SECRET_KEY],
           [sub |-> 2, iat |-> TokenLifetime, exp |-> TokenLifetime + TokenLifetime,
            sig |-> SECRET_KEY] }
    /\ req = [p \in Procs |-> Idle]
    /\ resp = Idle

\* The /documents routes served to those two identities.
NextDocuments == DocumentActions \/ Deliver

SpecDocuments == InitDocuments /\ [][NextDocuments]_vars

\* ================================================================== claims
DocumentKinds == {"create", "list", "get", "update", "delete", "format_check"}

\* The step sent a response from the handler's first remote call.
AnsweredAtOnce == resp = Idle /\ resp' # Idle /\ req' = req

\* Slot p made its last remote call in this step.
Completes(p) == req[p].pc # "idle" /\ req'[p] = Idle

\* Slot p went on from its first remote call to wait for its second.
Proceeds(p) == req[p].pc = "idle" /\ req'[p].pc # "idle"

Stored(document_id) == \E d \in documents : d.id = document_id

\* One step of the ownership gate on PUT and DELETE.
C1_NonOwnerStep ==
    /\ \A p \in Procs :
         req'[p].kind \in {"update", "delete"} /\ req'[p].pc # "idle" =>
           /\ req'[p].user # 0
           /\ req'[p].owner = req'[p].user
           /\ \A d \in documents' : d.id = req'[p].doc_id => d.user_id = req'[p].user
    /\ \A p \in Procs :
         req[p].kind \in {"update", "delete"} /\ Completes(p) =>
           \A d \in documents \ documents' :
              d.id = req[p].doc_id /\ d.user_id = req[p].user
    /\ ( /\ resp = Idle /\ resp' # Idle
         /\ resp'.kind \in {"update", "delete"}
         /\ resp'.user # 0
         /\ \E d \in documents : d.id = resp'.doc_id /\ d.user_id # resp'.user )
       => /\ resp'.status = 403
          /\ documents' = documents
          /\ req' = req

\* C1: a PUT or DELETE made as an identity other than the document's owner
\* ends in 403 and changes nothing; a PUT or DELETE handler reaches its
\* update/delete call only with the fetched user_id equal to the caller's id,
\* and the rows that call touches belong to the caller, whatever ran between.
C1_NonOwnerForbidden == [][C1_NonOwnerStep]_vars

C1_Witness ==
    /\ resp.kind = "delete" /\ resp.status = 403
    /\ \E d \in documents : d.id = resp.doc_id /\ d.user_id # resp.user

\* C2: every change to a stored document (a field rewritten, format_status
\* included, or the row removed) is made by a request authenticated as the
\* document's owner.
C2_OnlyOwnerMutates ==
    [][\A d \in documents \ documents' :
          \E p \in Procs : Completes(p) /\ req[p].user = d.user_id]_vars

\* One step of signup against the stored emails.
C3_ConflictStep ==
    /\ \A p \in Procs :
         Proceeds(p) /\ req'[p].kind = "signup" =>
           \A u \in users : u.email # req'[p].body.email
    /\ AnsweredAtOnce /\ resp'.kind = "signup" =>
         /\ \E u \in users : u.email = resp'.body.email
         /\ resp'.status = 400
         /\ resp'.detail = "Email already registered"
         /\ resp'.trace = <<"select_users">>
         /\ users' = users
    /\ resp' # Idle /\ resp'.kind = "signup" /\ resp'.status # 400 =>
         /\ resp'.status = 201
         /\ resp'.trace = <<"select_users", "insert_users">>
    /\ users \subseteq users'

\* C3: a signup whose email is already stored is answered 400 "Email already
\* registered" and inserts nothing; a signup goes on to its insert only when
\* the lookup found no row with its email; stored rows are never rewritten.
C3_SignupConflict == [][C3_ConflictStep]_vars

C3_Witness ==
    /\ resp.kind = "signup" /\ resp.status = 400
    /\ \E u \in users :
         /\ u.email = resp.body.email
         /\ u.username # resp.body.username
         /\ ~verify_password(resp.body.password, u.password)

\* C4: a login response carries a token only if a stored identity has the
\* submitted email and the submitted password verifies against its hash, and
\* the token's subject is that identity's id; every other login response is
\* the one 401 "Incorrect email or password", whichever the cause.
C4_LoginOutcome ==
    resp.kind = "login" =>
      IF resp.status = 200
      THEN /\ resp.data.token_type = "bearer"
           /\ resp.data.access_token \in issued
           /\ \E u \in users :
                /\ u.email = resp.body.username
                /\ verify_password(resp.body.password, u.password)
                /\ resp.data.access_token.sub = u.id
      ELSE /\ resp.status = 401
           /\ resp.detail = "Incorrect email or password"
           /\ resp.data = None
           /\ \/ \A u \in users : u.email # resp.body.username
              \/ \E u \in users :
                   /\ u.email = resp.body.username
                   /\ ~verify_password(resp.body.password, u.password)

C4_Witness ==
    /\ resp.kind = "login" /\ resp.status = 401
    /\ \E u \in users : u.email = resp.body.username

\* One step of the authentication gate of the /documents routes.
C5_GateStep ==
    /\ AnsweredAtOnce /\ resp'.kind \in DocumentKinds =>
         /\ resp'.trace[1] = "verify_token"
         /\ IF verify_token(resp'.token, now) = 0
            THEN /\ resp'.status = 401
                 /\ resp'.trace = <<"verify_token">>
                 /\ documents' = documents
            ELSE /\ resp'.status # 401
                 /\ resp'.user = resp'.token.sub
    /\ \A p \in Procs :
         Proceeds(p) /\ req'[p].kind \in DocumentKinds =>
           /\ verify_token(req'[p].token, now) = req'[p].user
           /\ req'[p].user # 0
           /\ req'[p].trace[1] = "verify_token"
    /\ \A p \in Procs :
         req'[p].kind \in {"update", "delete"} /\ req'[p].pc # "idle" =>
           /\ req'[p].trace = <<"verify_token", "select_documents", "ownership_check">>
           /\ req'[p].owner = req'[p].user
    /\ documents' # documents =>
         \/ resp'.kind = "create" /\ resp'.user # 0
         \/ \E p \in Procs :
              /\ Completes(p)
              /\ req[p].user # 0
              /\ req[p].kind \in {"update", "delete"} =>
                   resp'.trace = req[p].trace \o
                     <<IF req[p].kind = "update" THEN "update_documents"
                       ELSE "delete_documents">>

\* C5: a /documents request whose token does not verify (missing, forged or
\* expired) is answered 401 with nothing but the token verification done and
\* the documents table untouched; every handler that runs has an
\* authenticated identity; and an update or delete call is made only after
\* verify_token, the fetch and the ownership check, in that order.
C5_AuthenticatedFirst == [][C5_GateStep]_vars

C5_Witness ==
    /\ resp.kind = "update" /\ resp.status = 401
    /\ resp.token \in issued
    /\ documents # {}

\* One step seen from the tokens issued so far.
C6_LifetimeStep ==
    /\ \A t \in issued' :
         /\ \E u \in users' : u.id = t.sub
         /\ verify_token(t, now') =
              IF now' < t.iat + TokenLifetime THEN t.sub ELSE 0
    /\ \A t \in issued : verify_token(t, now) = 0 => verify_token(t, now') = 0
    /\ issued \subseteq issued'

C7_NotFoundStep ==
    /\ ( /\ AnsweredAtOnce
         /\ resp'.kind \in {"get", "update", "delete", "format_check"}
         /\ resp'.user # 0 )
       => /\ resp'.status = 404 <=> ~Stored(resp'.doc_id)
          /\ resp'.status = 404 =>
               /\ resp'.detail = "Document not found"
               /\ resp'.owner = 0
               /\ documents' = documents
          /\ resp'.status = 403 =>
               /\ resp'.kind \in {"update", "delete"}
               /\ \E d \in documents :
                    /\ d.id = resp'.doc_id
                    /\ d.user_id = resp'.owner
                    /\ d.user_id # resp'.user
    /\ \A p \in Procs :
         Proceeds(p) /\ req'[p].kind \in {"update", "delete", "format_check"} =>
           Stored(req'[p].doc_id)
    /\ resp' # Idle /\ resp'.status \in {403, 404} => documents' = documents

\* C7: a GET, PUT, DELETE or format-check for an id no stored document has is
\* answered 404 and writes nothing; 404 is answered only then, and 403 only
\* for a stored document owned by another identity.
C7_NotFound == [][C7_NotFoundStep]_vars

C7_Witness ==
    /\ resp.kind = "update" /\ resp.status = 404
    /\ resp.user # 0
    /\ documents # {}

\* One step seen from the users table and the /auth responses.
C8_HashStep ==
    /\ \A u \in users' : u.password \notin Passwords
    /\ \A u \in users' \ users :
         \E p \in Procs :
            /\ Completes(p) /\ req[p].kind = "signup"
            /\ u.email = req[p].body.email
            /\ u.username = req[p].body.username
            /\ \E s \in Salts :
                 u.password = get_password_hash(req[p].body.password, s)
            /\ verify_password(req[p].body.password, u.password)
    /\ resp' # Idle /\ resp'.kind = "signup" /\ resp'.status = 201 =>
         /\ DOMAIN resp'.data = {"id", "email", "username"}
         /\ resp'.data.email # resp'.body.password
         /\ resp'.data.username # resp'.body.password
    /\ resp' # Idle /\ resp'.kind = "login" /\ resp'.status = 200 =>
         /\ DOMAIN resp'.data = {"access_token", "token_type"}
         /\ DOMAIN resp'.data.access_token = {"sub", "iat", "exp", "sig"}
         /\ resp'.data.access_token.sig # resp'.body.password
    /\ resp' # Idle /\ resp'.kind \in {"signup", "login"}
         /\ resp'.status \notin {200, 201} => resp'.data = None

\* C8: every stored identity's password is get_password_hash of the password
\* its signup submitted, never a plaintext; no signup or login response
\* carries the submitted password.
C8_PasswordHashed == [][C8_HashStep]_vars

C8_Witness ==
    /\ resp.kind = "signup" /\ resp.status = 201
    /\ \E u \in users :
         /\ u.id = resp.data.id
         /\ u.password = get_password_hash(resp.body.password, "s1")

\* C9: no two stored identities share an email, and of the signups carrying
\* one email only one is answered 201.
C9_EmailUnique ==
    /\ \A u1, u2 \in users : u1.email = u2.email => u1 = u2
    /\ resp.kind = "signup" /\ resp.status = 201 =>
         Cardinality({u \in users : u.email = resp.body.email}) = 1

\* One step seen from the documents table.
C10_FrameStep ==
    /\ \A d \in documents' :
         ~Stored(d.id) =>
           /\ resp'.kind = "create"
           /\ resp'.user # 0
           /\ resp'.user = verify_token(resp'.token, now)
           /\ d.user_id = resp'.user
           /\ d.format_status = "not_checked"
           /\ DOMAIN d = DocumentBaseFields \cup {"id", "user_id", "format_status"}
           /\ \A f \in DocumentBaseFields :
                d[f] = IF f \in DOMAIN resp'.body THEN resp'.body[f] ELSE None
    /\ \A e \in documents :
         \A d \in documents' : d.id = e.id => d.user_id = e.user_id
    /\ \A d1, d2 \in documents' : d1.id = d2.id => d1 = d2
    /\ \A p \in Procs :
         req[p].kind = "update" /\ Completes(p) =>
           documents' =
             { IF e.id # req[p].doc_id THEN e
               ELSE [f \in DOMAIN e |->
                       IF /\ f \in DocumentUpdateFields
                          /\ f \in DOMAIN req[p].body
                          /\ req[p].body[f] # None
                       THEN req[p].body[f] ELSE e[f]] : e \in documents }

\* C10: a document is created with user_id the identity authenticated on its
\* POST and format_status "not_checked", whatever the body carries; no step
\* changes a stored document's id or user_id; a PUT writes exactly the
\* DocumentUpdate fields its body supplies with a non-null value.
C10_OwnerAndFrame == [][C10_FrameStep]_vars

C10_Witness ==
    /\ resp.kind = "update" /\ resp.status = 200
    /\ "topic" \in DOMAIN resp.body
    /\ \E d \in documents :
         /\ d.title = "Revised" /\ d.topic = "Cyber"
         /\ d.user_id = 2
         /\ d.format_status = "valid"
====
